---- MODULE Spec2Model ----
(***************************************************************************)
(* The Hangman game engine (class HangMan of hangman.py) as a state        *)
(* machine.  A string is a sequence of characters; a character is a        *)
(* one-element name such as "a", "A", "3", "_" or " ".  The second part    *)
(* is the game screen of DisplayHangMann (main.py): the Guess button's     *)
(* handler play_hangman with its dialog boxes, Back and Play.              *)
(***************************************************************************)
EXTENDS Integers, Sequences, FiniteSets, TLC

\* ------------------------------------------------------------------ bounds
\* number of Latin lowercase letters a caller of the engine submits; the
\* player at the game screen has one more letter key
NumLetters == 5
\* longest word the word source hands to the engine
MaxWordLen == 3

\* ------------------------------------------------------------- characters
LetterList == <<"a", "b", "c", "d", "e", "f", "g", "h">>
LowerLetters == {LetterList[i] : i \in 1..NumLetters}
\* the Latin lowercase letters of the player's keyboard
KeyLetters == {LetterList[i] : i \in 1..(NumLetters + 1)}
UpperLetters == {"A", "B"}
\* U+03A3 is the Greek capital sigma; it lowercases to U+03C3, the small
\* sigma, while the small final sigma U+03C2 is a lowercase letter of its own
\* whose uppercase form is U+03A3 too.
GreekLetters == {"U03A3", "U03C3", "U03C2"}
\* U+0130 (capital I with dot above) is the one letter whose lowercase form
\* has two code points: "i" followed by the combining dot U+0307.
AlphaChars ==
  KeyLetters \cup UpperLetters \cup GreekLetters \cup {"i", "U0130"}

\* str.isalpha() of one character
IsAlphaChar(c) == c \in AlphaChars

\* str.lower() of one character: a string of one or two characters.  Every
\* other code point lowercases to one code point and keeps its isalpha();
\* a capital sigma at the end of a word lowercases to the final sigma, which
\* no word of WordPool and no input of length one exercises.
LowerChar(c) ==
  CASE c = "A" -> <<"a">>
    [] c = "B" -> <<"b">>
    [] c = "U03A3" -> <<"U03C3">>
    [] c = "U0130" -> <<"i", "U0307">>
    [] OTHER -> <<c>>

\* a make_guess that forgets to lowercase its input
lower_Missing(s) == s

RECURSIVE lower(_)
\* str.lower(): character by character, concatenated
lower(s) == IF s = <<>> THEN <<>> ELSE LowerChar(Head(s)) \o lower(Tail(s))

\* str.isalpha(): non-empty and every character alphabetic
isalpha(s) == Len(s) >= 1 /\ \A i \in 1..Len(s) : IsAlphaChar(s[i])

\* x in list / single character in string
Contains(s, c) == \E i \in 1..Len(s) : s[i] = c

\* ----------------------------------------------------------------- inputs
\* words the word source can return
WordPool == { <<>>,
              <<"a">>,
              <<"A", "b">>,
              <<"a", "_">>,
              <<"a", "b", "a">>,
              <<"a", " ", "b">>,
              <<"b", "a", "a", "b">> }
Words == {w \in WordPool : Len(w) <= MaxWordLen}

\* the characters submitted to make_guess
TypedChars ==
  LowerLetters \cup UpperLetters \cup GreekLetters
    \cup {"3", "_", " ", "U0130"}
Inputs == { <<>> } \cup { <<c>> : c \in TypedChars }
          \cup { <<"a", "b">>, <<"a", "a">>, <<"3", "3">>, <<"A", "3">> }
\* what the player can type into the entry field of the game screen
PlayerInputs == Inputs \cup { <<c>> : c \in KeyLetters }

\* ------------------------------------------------------------------ state
\* the attributes of the HangMan object, then the last call made on it, its
\* argument and its outcome
VARIABLES answer, hint, wrong_guesses, guessed_letters, consecutive_errors,
          lastOp, lastArg, result

\* the game screen: which screen is shown, the dialog box the handler
\* play_hangman is waiting in, the state of the Guess button, the texts of
\* guessed_word_label and lives_label, the stage drawn on the canvas and the
\* outcome announced in this round; hint_offers counts the times the round
\* has asked "Do you want a hint?"
VARIABLES screen, pc, guess_button, guessed_word_label, lives, stage,
          announced, hint_offers

vars == <<answer, hint, wrong_guesses, guessed_letters, consecutive_errors,
          lastOp, lastArg, result,
          screen, pc, guess_button, guessed_word_label, lives, stage,
          announced, hint_offers>>

engine == <<answer, hint, wrong_guesses, guessed_letters, consecutive_errors>>

ui == <<screen, pc, guess_button, guessed_word_label, lives, stage,
       announced, hint_offers>>

\* number of entries of the hangman stage table
HangmanStages == 7

\* ------------------------------------------------------------ construction
\* hint of __init__: "_" at every alphabetic position, the character elsewhere
InitHint(ans) ==
  [i \in 1..Len(ans) |-> IF ~IsAlphaChar(ans[i]) THEN ans[i] ELSE "_"]

\* " ".join(s)
Join(s) ==
  IF s = <<>> THEN <<>>
  ELSE [i \in 1..(2 * Len(s) - 1) |-> IF i % 2 = 1 THEN s[(i + 1) \div 2]
                                                   ELSE " "]

\* "_ " * n, the first text of guessed_word_label
Blanks(n) == [i \in 1..(2 * n) |-> IF i % 2 = 1 THEN "_" ELSE " "]

\* the state after play_game has built the game screen and the HangMan
\* object for a word of the word source
Init ==
  \E word \in Words :
    /\ answer = lower(word)
    /\ hint = InitHint(lower(word))
    /\ wrong_guesses = 0
    /\ guessed_letters = {}
    /\ consecutive_errors = 0
    /\ lastOp = "init"
    /\ lastArg = <<>>
    /\ result = "none"
    /\ screen = "game"
    /\ pc = "idle"
    /\ guess_button = "normal"
    /\ guessed_word_label = Blanks(Len(word))
    /\ lives = HangmanStages - 1
    /\ stage = 0
    /\ announced = "none"
    /\ hint_offers = 0

\* -------------------------------------------------------------- validation
\* a validate_input without the isalpha check
validate_input_NoAlphaCheck(guessed, guess) ==
  IF Len(guess) # 1 THEN "InvalidLength"
  ELSE IF guess[1] \in guessed THEN "AlreadyGuessed"
  ELSE "ok"

\* a validate_input that tests isalpha before the length
validate_input_AlphaFirst(guessed, guess) ==
  IF ~isalpha(guess) THEN "NotALetter"
  ELSE IF Len(guess) # 1 THEN "InvalidLength"
  ELSE IF guess[1] \in guessed THEN "AlreadyGuessed"
  ELSE "ok"

\* a validate_input without the test against guessed_letters
validate_input_NoGuessedCheck(guessed, guess) ==
  IF Len(guess) # 1 THEN "InvalidLength"
  ELSE IF ~isalpha(guess) THEN "NotALetter"
  ELSE "ok"

\* validate_input: the error raised, or "ok"
validate_input(guessed, guess) ==
  IF Len(guess) # 1 THEN "InvalidLength"
  ELSE IF ~isalpha(guess) THEN "NotALetter"
  ELSE IF guess[1] \in guessed THEN "AlreadyGuessed"
  ELSE "ok"

\* ------------------------------------------------------------- make_guess
\* a loop that stops at the first matching index
RevealAll_FirstOnly(ans, h, c) ==
  [i \in 1..Len(h) |->
     IF ans[i] = c /\ \A j \in 1..(i - 1) : ans[j] # c THEN c ELSE h[i]]

\* a loop without the test of answer[i] against the guess
RevealAll_NoTest(ans, h, c) == [i \in 1..Len(h) |-> c]

\* a loop that rebuilds hint from the current guess alone
RevealAll_OnlyCurrent(ans, h, c) ==
  [i \in 1..Len(h) |->
     IF ans[i] = c THEN c ELSE IF IsAlphaChar(ans[i]) THEN "_" ELSE ans[i]]

\* the loop of make_guess: reveal the letter at every matching index
RevealAll(ans, h, c) ==
  [i \in 1..Len(h) |-> IF ans[i] = c THEN c ELSE h[i]]

\* a make_guess that does not reset consecutive_errors on a correct guess
ApplyGuess_NoReset(c) ==
  /\ guessed_letters' = guessed_letters \cup {c}
  /\ IF Contains(answer, c)
       THEN /\ hint' = RevealAll(answer, hint, c)
            /\ consecutive_errors' = consecutive_errors
            /\ wrong_guesses' = wrong_guesses
       ELSE /\ wrong_guesses' = wrong_guesses + 1
            /\ consecutive_errors' = consecutive_errors + 1
            /\ hint' = hint

\* a make_guess that does not count a wrong guess as a consecutive error
ApplyGuess_NoStreak(c) ==
  /\ guessed_letters' = guessed_letters \cup {c}
  /\ IF Contains(answer, c)
       THEN /\ hint' = RevealAll(answer, hint, c)
            /\ consecutive_errors' = 0
            /\ wrong_guesses' = wrong_guesses
       ELSE /\ wrong_guesses' = wrong_guesses + 1
            /\ consecutive_errors' = consecutive_errors
            /\ hint' = hint

\* make_guess, the part after a successful validation
ApplyGuess(c) ==
  /\ guessed_letters' = guessed_letters \cup {c}
  /\ IF Contains(answer, c)
       THEN /\ hint' = RevealAll(answer, hint, c)
            /\ consecutive_errors' = 0
            /\ wrong_guesses' = wrong_guesses
       ELSE /\ wrong_guesses' = wrong_guesses + 1
            /\ consecutive_errors' = consecutive_errors + 1
            /\ hint' = hint

\* a make_guess that validates the input as typed and lowercases it after
GuessEffect_LowerAfter(input) ==
  LET v == validate_input(guessed_letters, input)
  IN /\ result' = v
     /\ answer' = answer
     /\ IF v = "ok" /\ Len(lower(input)) = 1
          THEN ApplyGuess(lower(input)[1])
          ELSE UNCHANGED <<hint, wrong_guesses, guessed_letters,
                           consecutive_errors>>

\* what make_guess does with its argument: lowercase, validate, apply
GuessEffect(input) ==
  LET guess == lower(input)
      v == validate_input(guessed_letters, guess)
  IN /\ result' = v
     /\ answer' = answer
     /\ IF v = "ok"
          THEN ApplyGuess(guess[1])
          ELSE UNCHANGED <<hint, wrong_guesses, guessed_letters,
                           consecutive_errors>>

\* a make_guess that refuses every guess once the round is won or lost
make_guess_Locked(input) ==
  /\ lastOp' = "make_guess"
  /\ lastArg' = input
  /\ IF ~Contains(hint, "_") \/ wrong_guesses >= HangmanStages - 1
       THEN /\ result' = "AlreadyGuessed"
            /\ UNCHANGED <<answer, hint, wrong_guesses, guessed_letters,
                           consecutive_errors>>
       ELSE GuessEffect(input)

make_guess(input) ==
  /\ lastOp' = "make_guess"
  /\ lastArg' = input
  /\ GuessEffect(input)

\* make_guess called directly on the engine
MakeGuess == (\E input \in Inputs : make_guess(input)) /\ UNCHANGED ui

\* -------------------------------------------------------------- give_hint
\* the indexes of hint that hold "_"
Unrevealed(h) == {i \in 1..Len(h) : h[i] = "_"}

\* the test of give_hint and of play_hangman: "_" not in hint
NoUnderscore(h) == ~Contains(h, "_")

\* a give_hint that resets consecutive_errors before its early return
give_hint_ResetFirst ==
  /\ lastOp' = "give_hint"
  /\ lastArg' = <<>>
  /\ answer' = answer
  /\ UNCHANGED <<wrong_guesses, guessed_letters>>
  /\ consecutive_errors' = 0
  /\ IF NoUnderscore(hint)
       THEN /\ result' = "NoHintNeeded"
            /\ UNCHANGED hint
       ELSE \E index \in Unrevealed(hint) :
              /\ hint' = [hint EXCEPT ![index] = answer[index]]
              /\ result' = "Hint"

\* a give_hint that reveals every occurrence of the chosen letter
give_hint_RevealsLetter ==
  /\ lastOp' = "give_hint"
  /\ lastArg' = <<>>
  /\ answer' = answer
  /\ UNCHANGED <<wrong_guesses, guessed_letters>>
  /\ IF NoUnderscore(hint)
       THEN /\ result' = "NoHintNeeded"
            /\ UNCHANGED <<hint, consecutive_errors>>
       ELSE \E index \in Unrevealed(hint) :
              /\ hint' = RevealAll(answer, hint, answer[index])
              /\ consecutive_errors' = 0
              /\ result' = "Hint"

\* give_hint: an early return when no "_" is left, else one random index
give_hint ==
  /\ lastOp' = "give_hint"
  /\ lastArg' = <<>>
  /\ answer' = answer
  /\ UNCHANGED <<wrong_guesses, guessed_letters>>
  /\ IF NoUnderscore(hint)
       THEN /\ result' = "NoHintNeeded"
            /\ UNCHANGED <<hint, consecutive_errors>>
       ELSE \E index \in Unrevealed(hint) :
              /\ hint' = [hint EXCEPT ![index] = answer[index]]
              /\ consecutive_errors' = 0
              /\ result' = "Hint"

\* give_hint called directly on the engine
GiveHint == give_hint /\ UNCHANGED ui

\* ------------------------------------------------- tests of play_hangman
\* the win test of play_hangman: "_" not in self.game.hint
WinTest(h) == NoUnderscore(h)

\* a lose test that needs one wrong guess more than there are lives
LoseTest_Strict(w) == w > HangmanStages - 1

\* the lose test of play_hangman: wrong_guesses >= len(hangman) - 1
LoseTest(w) == w >= HangmanStages - 1

\* a display_hint that stores the joined text in hint
DisplayHint_Stores ==
  /\ lastOp' = "display_hint" /\ lastArg' = <<>> /\ result' = "none"
  /\ hint' = Join(hint)
  /\ UNCHANGED <<answer, wrong_guesses, guessed_letters, consecutive_errors>>
  /\ UNCHANGED ui

\* display_hint: returns " ".join(self.hint) and writes nothing
DisplayHint ==
  /\ lastOp' = "display_hint" /\ lastArg' = <<>> /\ result' = "none"
  /\ UNCHANGED engine
  /\ UNCHANGED ui

\* display_answer: returns " ".join(self.answer) and writes nothing
DisplayAnswer ==
  /\ lastOp' = "display_answer" /\ lastArg' = <<>> /\ result' = "none"
  /\ UNCHANGED engine
  /\ UNCHANGED ui

\* the engine driven directly by its caller
Next == MakeGuess \/ GiveHint \/ DisplayHint \/ DisplayAnswer

Spec == Init /\ [][Next]_vars

\* ---------------------------------------------------------- game screen
\* the consecutive wrong guesses after which play_hangman offers a hint
HintThreshold == 3

\* where play_hangman goes after an accepted guess: the WIN box, the LOSE
\* box, the hint question, or its end
\* a play_hangman that offers the hint one wrong guess early
AfterGuess_OffByOne(h, w, ce) ==
  IF WinTest(h) THEN "win_box"
  ELSE IF LoseTest(w) THEN "lose_box"
  ELSE IF ce = HintThreshold - 1 THEN "ask_box"
  ELSE "idle"

\* a play_hangman that looks at the streak before the lives
AfterGuess_HintFirst(h, w, ce) ==
  IF WinTest(h) THEN "win_box"
  ELSE IF ce = HintThreshold THEN "ask_box"
  ELSE IF LoseTest(w) THEN "lose_box"
  ELSE "idle"

\* a play_hangman without the check for exhausted lives
AfterGuess_NoLose(h, w, ce) ==
  IF WinTest(h) THEN "win_box"
  ELSE IF ce = HintThreshold THEN "ask_box"
  ELSE "idle"

AfterGuess(h, w, ce) ==
  IF WinTest(h) THEN "win_box"
  ELSE IF LoseTest(w) THEN "lose_box"
  ELSE IF ce = HintThreshold THEN "ask_box"
  ELSE "idle"

\* a click on Guess: play_hangman up to its first dialog box or its end.
\* A rejected input shows the error box and returns.
PlayHangman ==
  /\ screen = "game" /\ pc = "idle" /\ guess_button = "normal"
  /\ \E input \in PlayerInputs : make_guess(input)
  /\ UNCHANGED <<screen, guess_button>>
  /\ IF result' # "ok"
       THEN UNCHANGED <<pc, guessed_word_label, lives, stage, announced,
                        hint_offers>>
       ELSE /\ guessed_word_label' = Join(hint')
            /\ lives' = HangmanStages - 1 - wrong_guesses'
            /\ stage' = wrong_guesses'
            /\ pc' = AfterGuess(hint', wrong_guesses', consecutive_errors')
            /\ announced' = CASE pc' = "win_box" -> "WIN"
                               [] pc' = "lose_box" -> "LOSE"
                               [] OTHER -> announced
            /\ hint_offers' = IF pc' = "ask_box" THEN hint_offers + 1
                                                 ELSE hint_offers

\* an end of round that leaves the Guess button enabled
CloseEndBox_KeepsButton ==
  /\ pc \in {"win_box", "lose_box"}
  /\ guess_button' = guess_button
  /\ pc' = "idle"
  /\ lastOp' = "disable" /\ lastArg' = <<>> /\ result' = "none"
  /\ UNCHANGED engine
  /\ UNCHANGED <<screen, guessed_word_label, lives, stage, announced,
                 hint_offers>>

\* the WIN or LOSE box is closed: the Guess button is disabled
CloseEndBox ==
  /\ pc \in {"win_box", "lose_box"}
  /\ guess_button' = "disabled"
  /\ pc' = "idle"
  /\ lastOp' = "disable" /\ lastArg' = <<>> /\ result' = "none"
  /\ UNCHANGED engine
  /\ UNCHANGED <<screen, guessed_word_label, lives, stage, announced,
                 hint_offers>>

\* the player answers yes to "Do you want a hint?": give_hint, then the box
\* with the hint message
AnswerYes ==
  /\ pc = "ask_box"
  /\ give_hint
  /\ pc' = "hint_box"
  /\ UNCHANGED <<screen, guess_button, guessed_word_label, lives, stage,
                 announced, hint_offers>>

\* a handler that forgets the reset when the hint is declined
AnswerNo_NoReset ==
  /\ pc = "ask_box"
  /\ consecutive_errors' = consecutive_errors
  /\ pc' = "idle"
  /\ lastOp' = "reset" /\ lastArg' = <<>> /\ result' = "none"
  /\ UNCHANGED <<answer, hint, wrong_guesses, guessed_letters>>
  /\ UNCHANGED <<screen, guess_button, guessed_word_label, lives, stage,
                 announced, hint_offers>>

\* the player answers no: the counter is reset
AnswerNo ==
  /\ pc = "ask_box"
  /\ consecutive_errors' = 0
  /\ pc' = "idle"
  /\ lastOp' = "reset" /\ lastArg' = <<>> /\ result' = "none"
  /\ UNCHANGED <<answer, hint, wrong_guesses, guessed_letters>>
  /\ UNCHANGED <<screen, guess_button, guessed_word_label, lives, stage,
                 announced, hint_offers>>

\* the hint message is closed: the label is refreshed, the counter is reset
CloseHintBox ==
  /\ pc = "hint_box"
  /\ guessed_word_label' = Join(hint)
  /\ consecutive_errors' = 0
  /\ pc' = "idle"
  /\ lastOp' = "reset" /\ lastArg' = <<>> /\ result' = "none"
  /\ UNCHANGED <<answer, hint, wrong_guesses, guessed_letters>>
  /\ UNCHANGED <<screen, guess_button, lives, stage, announced, hint_offers>>

\* a click on Back: the widgets of the game screen are hidden and the
\* selection screen is shown; the HangMan object is left as it is
BackToMenu ==
  /\ screen = "game" /\ pc = "idle"
  /\ screen' = "menu"
  /\ lastOp' = "back_to_menu" /\ lastArg' = <<>> /\ result' = "none"
  /\ UNCHANGED engine
  /\ UNCHANGED <<pc, guess_button, guessed_word_label, lives, stage,
                 announced, hint_offers>>

\* a click on Play that gets a word: new widgets and a new HangMan object
PlayGame ==
  /\ screen = "menu"
  /\ \E word \in Words :
       /\ answer' = lower(word)
       /\ hint' = InitHint(lower(word))
       /\ guessed_word_label' = Blanks(Len(word))
  /\ wrong_guesses' = 0
  /\ guessed_letters' = {}
  /\ consecutive_errors' = 0
  /\ lastOp' = "init" /\ lastArg' = <<>> /\ result' = "none"
  /\ screen' = "game"
  /\ pc' = "idle"
  /\ guess_button' = "normal"
  /\ lives' = HangmanStages - 1
  /\ stage' = 0
  /\ announced' = "none"
  /\ hint_offers' = 0

\* the engine driven by the game screen
UINext ==
  \/ PlayHangman
  \/ CloseEndBox
  \/ AnswerYes
  \/ AnswerNo
  \/ CloseHintBox
  \/ BackToMenu
  \/ PlayGame

UISpec == Init /\ [][UINext]_vars

\* a Guess click with an input that make_guess accepts
AcceptedPlay == PlayHangman /\ result' = "ok"

\* one round on the game screen, played by a player who stays on the screen
\* and types only letters that make_guess accepts
RoundNext ==
  \/ AcceptedPlay
  \/ CloseEndBox
  \/ AnswerYes
  \/ AnswerNo
  \/ CloseHintBox

\* a message box is answered or closed
AnswerBox == CloseEndBox \/ AnswerYes \/ AnswerNo \/ CloseHintBox

\* the player keeps submitting such letters as long as the Guess button takes
\* them, and every message box that opens is answered
RoundFairness ==
  /\ WF_vars(AcceptedPlay)
  /\ WF_vars(AnswerBox)

RoundSpec == Init /\ [][RoundNext]_vars /\ RoundFairness

\* ================================================================ claims
\* a step of make_guess with the given input
GuessStep(input) == lastOp' = "make_guess" /\ lastArg' = input
\* a step of give_hint
HintStep == lastOp' = "give_hint"
\* the typed characters whose lowercase form is a single character
SingleLower == {d \in TypedChars : Len(LowerChar(d)) = 1}
\* that lowercase form
LowerOf(d) == LowerChar(d)[1]

\* C1: a make_guess of a single alphabetic character c that is not in
\* guessed_letters and occurs in answer puts c in guessed_letters, shows c at
\* every index of hint where answer holds c, sets consecutive_errors to 0
\* and leaves wrong_guesses unchanged.
C1_CorrectGuess ==
  [][ \A c \in AlphaChars :
        (GuessStep(<<c>>) /\ c \notin guessed_letters /\ Contains(answer, c))
        => /\ result' = "ok"
           /\ c \in guessed_letters'
           /\ \A i \in 1..Len(answer) : answer[i] = c => hint'[i] = c
           /\ consecutive_errors' = 0
           /\ wrong_guesses' = wrong_guesses ]_vars

\* a correct guess of "a" in "aba" made after at least one wrong guess
C1_Witness ==
  /\ lastOp = "make_guess" /\ lastArg = <<"a">> /\ result = "ok"
  /\ answer = <<"a", "b", "a">>
  /\ hint = <<"a", "_", "a">>
  /\ wrong_guesses >= 1
  /\ consecutive_errors = 0

InvalidInputs ==
  {input \in Inputs : Len(input) # 1 \/ ~IsAlphaChar(input[1])}

\* C4: a make_guess of an empty input, of an input of two or more characters
\* or of a single non-alphabetic character fails with InvalidLength or
\* NotALetter and changes no attribute of the engine.
C4_InvalidInput ==
  [][ \A input \in InvalidInputs :
        GuessStep(input)
        => /\ result' \in {"InvalidLength", "NotALetter"}
           /\ UNCHANGED engine ]_vars

\* a digit has just been rejected in the middle of a round
C4_Witness ==
  /\ lastOp = "make_guess" /\ lastArg = <<"3">>
  /\ result = "NotALetter"
  /\ guessed_letters # {}
  /\ wrong_guesses >= 1

\* the single character of input is, up to letter case, already guessed
TypedAlreadyGuessed(input) ==
  input[1] \in SingleLower /\ LowerOf(input[1]) \in guessed_letters

\* C5: an input whose length is not one fails with InvalidLength; otherwise a
\* non-alphabetic character fails with NotALetter; otherwise a character
\* already guessed fails with AlreadyGuessed; and only an input that passes
\* the three checks is accepted.
C5_ValidationOrder ==
  [][ \A input \in Inputs :
        GuessStep(input)
        => /\ Len(input) # 1 => result' = "InvalidLength"
           /\ (Len(input) = 1 /\ ~IsAlphaChar(input[1]))
                => result' = "NotALetter"
           /\ (Len(input) = 1 /\ IsAlphaChar(input[1])
                 /\ TypedAlreadyGuessed(input))
                => result' = "AlreadyGuessed"
           /\ result' = "ok"
                => (Len(input) = 1 /\ IsAlphaChar(input[1])
                      /\ ~TypedAlreadyGuessed(input)) ]_vars

\* two already guessed letters typed together are rejected for their length
C5_Witness ==
  /\ lastOp = "make_guess" /\ lastArg = <<"a", "a">>
  /\ result = "InvalidLength"
  /\ "a" \in guessed_letters

\* the mask shows the secret's character at index i
Revealed(h, i) == h[i] = answer[i]

\* C6 as stated: a give_hint in a state that is not won leaves wrong_guesses
\* unchanged, reveals exactly one index of hint that was not revealed before
\* (sets it to the character of answer there and changes no other index) and
\* sets consecutive_errors to 0.
C6_AsStated ==
  [][ (HintStep /\ ~WinTest(hint))
      => /\ wrong_guesses' = wrong_guesses
         /\ consecutive_errors' = 0
         /\ \E i \in 1..Len(hint) :
              /\ ~Revealed(hint, i)
              /\ Revealed(hint', i)
              /\ hint' = [hint EXCEPT ![i] = answer[i]] ]_vars

AllLettersRevealed ==
  \A i \in 1..Len(answer) : IsAlphaChar(answer[i]) => hint[i] = answer[i]

\* C8 as stated: the win test holds exactly when every alphabetic position of
\* answer is revealed, and the lose test holds exactly when wrong_guesses is
\* at least 6.
C8_AsStated ==
  /\ WinTest(hint) <=> AllLettersRevealed
  /\ LoseTest(wrong_guesses) <=> wrong_guesses >= 6

\* C9: every character of guessed_letters that occurs in answer is shown in
\* hint at every index where answer holds it.
C9_GuessedRevealed ==
  \A c \in guessed_letters :
    \A i \in 1..Len(answer) : answer[i] = c => hint[i] = c

\* a guessed letter that occurs twice, next to a hinted one and a wrong guess
C9_Witness ==
  /\ answer = <<"a", "b", "a">>
  /\ guessed_letters = {"a", "c"}
  /\ hint = <<"a", "b", "a">>

\* C10: hint is as long as answer, and each index of hint holds either "_" or
\* the character of answer at that index.
C10_MaskShape ==
  /\ Len(hint) = Len(answer)
  /\ \A i \in 1..Len(hint) : hint[i] = "_" \/ hint[i] = answer[i]

\* a mask with a hinted letter between two placeholders, after a wrong guess
C10_Witness ==
  /\ lastOp = "give_hint" /\ result = "Hint"
  /\ answer = <<"a", "b", "a">>
  /\ hint = <<"_", "b", "_">>
  /\ wrong_guesses = 1

\* the step is an accepted guess of a letter that is not in answer
AcceptedWrong ==
  /\ lastOp' = "make_guess" /\ result' = "ok"
  /\ ~Contains(answer, LowerOf(lastArg'[1]))
\* the step is an accepted guess of a letter of answer
AcceptedRight ==
  /\ lastOp' = "make_guess" /\ result' = "ok"
  /\ Contains(answer, LowerOf(lastArg'[1]))
\* the step gives a hint, is the game screen's reset, or starts a round
StreakEnds ==
  \/ lastOp' = "give_hint" /\ result' = "Hint"
  \/ lastOp' = "reset"
  \/ lastOp' = "init"

\* C11: consecutive_errors never exceeds wrong_guesses, and it counts the
\* incorrect guesses accepted since the last correct guess, hint or reset: it
\* starts a round at 0, an accepted incorrect guess adds 1 to it, an accepted
\* correct guess, a given hint and the game screen's reset set it to 0, and
\* no other step changes it.
C11_Streak ==
  /\ [](consecutive_errors <= wrong_guesses)
  /\ [](lastOp = "init" => consecutive_errors = 0)
  /\ [][ /\ AcceptedWrong => consecutive_errors' = consecutive_errors + 1
         /\ AcceptedRight => consecutive_errors' = 0
         /\ StreakEnds => consecutive_errors' = 0
         /\ ~(AcceptedWrong \/ AcceptedRight \/ StreakEnds)
              => consecutive_errors' = consecutive_errors ]_vars

\* two wrong guesses in a row after a hint offer that was declined at three
C11_Witness ==
  /\ lastOp = "make_guess" /\ result = "ok"
  /\ consecutive_errors = 2
  /\ wrong_guesses = 5
  /\ \A i \in 1..Len(hint) : hint[i] = "_"

\* C12 as stated: construction lowercases the secret into answer, leaves
\* guessed_letters empty and both counters 0 and builds a hint with "_" at
\* every alphabetic position and the secret's character elsewhere; a position
\* of answer that is not alphabetic (an underscore included) is never taken
\* for a placeholder: the win test holds once every letter is revealed, and
\* give_hint reveals a letter whenever it reports "Hint" and reports
\* "NoHintNeeded" once every letter is revealed.
C12_AsStated ==
  /\ [](lastOp = "init" =>
          /\ \A i \in 1..Len(answer) : LowerChar(answer[i]) = <<answer[i]>>
          /\ guessed_letters = {}
          /\ wrong_guesses = 0
          /\ consecutive_errors = 0
          /\ Len(hint) = Len(answer)
          /\ \A i \in 1..Len(answer) :
               hint[i] = IF IsAlphaChar(answer[i]) THEN "_" ELSE answer[i])
  /\ [](AllLettersRevealed => WinTest(hint))
  /\ [][HintStep =>
          /\ AllLettersRevealed => result' = "NoHintNeeded"
          /\ result' = "Hint" =>
               \E i \in 1..Len(answer) :
                 /\ IsAlphaChar(answer[i])
                 /\ hint[i] = "_"
                 /\ hint' = [hint EXCEPT ![i] = answer[i]]]_vars

\* C13 as stated: no engine exists whose secret is empty, so none whose hint
\* is empty and passes the win test before any guess.
C13_AsStated ==
  /\ Len(answer) > 0
  /\ Len(hint) > 0
  /\ lastOp = "init" => ~WinTest(hint)

\* the round is already won or lost by the program's own tests
Terminal == WinTest(hint) \/ LoseTest(wrong_guesses)

\* C14: in a state where the win test or the lose test already holds, a
\* make_guess of a single letter whose lowercase form is not in
\* guessed_letters is accepted and applies the normal update: the letter
\* joins guessed_letters, and either it is revealed wherever answer holds it
\* and consecutive_errors becomes 0, or wrong_guesses and consecutive_errors
\* both grow by one.
C14_NoTerminalLock ==
  [][ ( /\ lastOp' = "make_guess"
        /\ Terminal
        /\ Len(lastArg') = 1
        /\ lastArg'[1] \in SingleLower
        /\ IsAlphaChar(LowerOf(lastArg'[1]))
        /\ LowerOf(lastArg'[1]) \notin guessed_letters )
      => LET c == LowerOf(lastArg'[1])
         IN /\ result' = "ok"
            /\ guessed_letters' = guessed_letters \cup {c}
            /\ answer' = answer
            /\ IF Contains(answer, c)
                 THEN /\ hint' = [i \in 1..Len(hint) |->
                                    IF answer[i] = c THEN c ELSE hint[i]]
                      /\ wrong_guesses' = wrong_guesses
                      /\ consecutive_errors' = 0
                 ELSE /\ hint' = hint
                      /\ wrong_guesses' = wrong_guesses + 1
                      /\ consecutive_errors' = consecutive_errors + 1 ]_vars

\* C14 witness: a round already lost with six wrong guesses is then won by
\* an accepted guess of its only letter.
C14_Witness ==
  /\ lastOp = "make_guess"
  /\ result = "ok"
  /\ lastArg = <<"A">>
  /\ answer = <<"a">>
  /\ wrong_guesses = HangmanStages - 1
  /\ hint = <<"a">>

CasedLetters == {"a", "b", "U03C3", "U03C2"}

\* str.upper() of such a letter: both the small sigma and the final sigma
\* have the capital sigma as uppercase form
UpperChar(c) ==
  CASE c = "a" -> "A"
    [] c = "b" -> "B"
    [] c \in {"U03C3", "U03C2"} -> "U03A3"

\* the letters that are the lowercase form of their own uppercase form
RoundTripLetters == {c \in CasedLetters : LowerOf(UpperChar(c)) = c}

\* guessed_letters holds single letters that are their own lowercase form
GuessedLowercase ==
  \A c \in guessed_letters : IsAlphaChar(c) /\ LowerChar(c) = <<c>>

\* answer is its own lowercase form
AnswerLowercase ==
  \A i \in 1..Len(answer) : LowerChar(answer[i]) = <<answer[i]>>

\* C16 as stated: for every letter c, a make_guess of the uppercase form of c
\* has the outcome and the resulting state of a make_guess of the lowercase
\* form of c; guessed_letters holds lowercase single letters only; the engine
\* keeps the lowercase form of its secret.
C16_AsStated ==
  /\ [][ \A c \in CasedLetters :
           GuessStep(<<UpperChar(c)>>) => GuessEffect(lower(<<c>>)) ]_vars
  /\ []GuessedLowercase
  /\ []AnswerLowercase

\* C16: for every letter c that is the lowercase form of its own uppercase
\* form, a make_guess of the uppercase form of c has the outcome and the
\* resulting state of a make_guess of c; guessed_letters holds lowercase
\* single letters only; the engine keeps the lowercase form of its secret.
C16_CaseInsensitive ==
  /\ [][ \A c \in RoundTripLetters :
           GuessStep(<<UpperChar(c)>>) => GuessEffect(lower(<<c>>)) ]_vars
  /\ []GuessedLowercase
  /\ []AnswerLowercase

\* C16 witness: on a secret typed in capitals, the capital sigma is accepted
\* as the small sigma although the final sigma was guessed before.
C16_Witness ==
  /\ lastOp = "make_guess"
  /\ lastArg = <<"U03A3">>
  /\ result = "ok"
  /\ answer = <<"a", "b">>
  /\ guessed_letters = {"U03C2", "U03C3"}
  /\ wrong_guesses = 2

\* C17 as stated: play_hangman never announces WIN in a state where
\* wrong_guesses is 6 or more, and a guess that brings wrong_guesses to 6
\* always ends the round as LOSE.
C17_AsStated ==
  /\ [](pc = "win_box" => wrong_guesses < HangmanStages - 1)
  /\ [][ ( /\ lastOp' = "make_guess"
           /\ wrong_guesses' = HangmanStages - 1
           /\ wrong_guesses' # wrong_guesses )
         => pc' = "lose_box" /\ announced' = "LOSE" ]_vars

\* an accepted guess made through the Guess button
AcceptedGuess == lastOp' = "make_guess" /\ result' = "ok"

\* C18: after an accepted guess that does not end the round the hint is
\* offered exactly when consecutive_errors is 3, and it is offered at no other
\* time; when the offer is over consecutive_errors is 0, whether the player
\* took the hint or not; so whenever play_hangman has returned without
\* ending the round consecutive_errors is at most 2.
C18_HintOffer ==
  /\ [][ (AcceptedGuess /\ pc' \notin {"win_box", "lose_box"})
         => (pc' = "ask_box" <=> consecutive_errors' = HintThreshold) ]_vars
  /\ [][ (pc' = "ask_box" /\ pc # "ask_box") => AcceptedGuess ]_vars
  /\ [][ (pc \in {"ask_box", "hint_box"} /\ pc' = "idle")
         => consecutive_errors' = 0 ]_vars
  /\ []((pc = "idle" /\ announced = "none") => consecutive_errors <= 2)

\* C18 witness: the player declined the hint offered after the third wrong
\* guess in a row, and the round goes on.
C18_Witness ==
  /\ lastOp = "reset"
  /\ pc = "idle"
  /\ announced = "none"
  /\ wrong_guesses = 3
  /\ consecutive_errors = 0
  /\ \A i \in 1..Len(hint) : hint[i] = "_"

\* C19: in a round played through the game screen wrong_guesses stays
\* within 0..6, the stage drawn on the canvas is one of the 7 stages, and the
\* lives shown are 6 - wrong_guesses as of the last accepted guess and never
\* negative.
C19_StageRange ==
  /\ wrong_guesses \in 0..(HangmanStages - 1)
  /\ stage \in 0..(HangmanStages - 1)
  /\ stage = wrong_guesses
  /\ lives = HangmanStages - 1 - wrong_guesses
  /\ lives >= 0

\* C19 witness: the last stage is drawn and no life is left
C19_Witness ==
  /\ stage = HangmanStages - 1
  /\ lives = 0
  /\ announced = "LOSE"
  /\ guess_button = "disabled"

\* C20: once play_hangman has announced WIN or LOSE and its message box is
\* closed the Guess button is disabled, and from the announcement on the
\* engine of that round never changes again: answer, hint, guessed_letters,
\* wrong_guesses and consecutive_errors keep their values until a new round
\* builds a new engine.
C20_RoundOver ==
  /\ []((announced # "none" /\ pc = "idle") => guess_button = "disabled")
  /\ [][ (announced # "none" /\ lastOp' # "init") => UNCHANGED engine ]_vars

\* C20 witness: after a round announced as won the player went back to the
\* menu; the engine of that round is as the last guess left it.
C20_Witness ==
  /\ announced = "WIN"
  /\ guess_button = "disabled"
  /\ screen = "menu"
  /\ hint = <<"a", "b", "a">>
  /\ wrong_guesses = 4

\* the number of distinct letters of the secret
DistinctLetters ==
  Cardinality({answer[i] :
                 i \in {j \in 1..Len(answer) : IsAlphaChar(answer[j])}})

\* C21: a round in which the player keeps submitting letters that are
\* accepted is eventually announced as WIN or LOSE, whatever the answers to
\* the hint offers; the announcement comes with the accepted guess number
\* (distinct letters of the secret) + 6 at the latest, each accepted guess
\* being one element of guessed_letters.
C21_Termination ==
  /\ <>(announced # "none")
  /\ [](Cardinality(guessed_letters) <= DistinctLetters + HangmanStages - 1)
  /\ [](Cardinality(guessed_letters) = DistinctLetters + HangmanStages - 1
          => announced # "none")

\* C21 witness: the round is announced exactly with the last accepted guess
\* the bound allows
C21_Witness ==
  /\ pc = "lose_box"
  /\ announced = "LOSE"
  /\ Cardinality(guessed_letters) = DistinctLetters + HangmanStages - 1

\* play_hangman has returned after a guess that make_guess accepted
HandlerFinished ==
  /\ screen = "game"
  /\ pc = "idle"
  /\ \/ lastOp \in {"reset", "disable"}
     \/ lastOp = "make_guess" /\ result = "ok"

\* C22 as stated: whenever play_hangman has returned and hint holds no "_",
\* the round has been announced as WIN and the Guess button is disabled; so
\* a hint that reveals the last "_" ends the round as won.
C22_AsStated ==
  (HandlerFinished /\ WinTest(hint))
    => (announced = "WIN" /\ guess_button = "disabled")

\* the letters shown in hint that are not in guessed_letters: the letters a
\* hint has revealed and the player has not typed
HintedLetters ==
  {hint[i] : i \in {j \in 1..Len(hint) : IsAlphaChar(hint[j])}}
    \ guessed_letters

\* C23: a give_hint that gives a hint leaves guessed_letters as it is and
\* changes hint at the one chosen index only; a later make_guess of a letter
\* revealed that way is accepted, joins guessed_letters, is shown at every
\* index where answer holds it, sets consecutive_errors to 0 and leaves
\* wrong_guesses unchanged.
C23_HintedLetter ==
  /\ [][ (HintStep /\ result' = "Hint")
         => /\ guessed_letters' = guessed_letters
            /\ \E i \in Unrevealed(hint) :
                 hint' = [hint EXCEPT ![i] = answer[i]] ]_vars
  /\ [][ ( /\ lastOp' = "make_guess"
           /\ Len(lastArg') = 1
           /\ lastArg'[1] \in SingleLower
           /\ LowerOf(lastArg'[1]) \in HintedLetters )
         => LET c == LowerOf(lastArg'[1])
            IN /\ result' = "ok"
               /\ guessed_letters' = guessed_letters \cup {c}
               /\ \A i \in 1..Len(answer) :
                    hint'[i] = IF answer[i] = c THEN c ELSE hint[i]
               /\ wrong_guesses' = wrong_guesses
               /\ consecutive_errors' = 0 ]_vars

\* C23 witness: a hint has revealed the last of the two occurrences of a
\* letter; the other one is still a placeholder and the letter can be typed.
C23_Witness ==
  /\ lastOp = "give_hint"
  /\ result = "Hint"
  /\ answer = <<"a", "b", "a">>
  /\ hint = <<"_", "_", "a">>
  /\ HintedLetters = {"a"}
  /\ wrong_guesses = 1

\* the guessed letters that do not occur in answer
WrongLetters == {c \in guessed_letters : ~Contains(answer, c)}

\* the guessed letters that occur in answer: the accepted correct guesses
RightLetters == {c \in guessed_letters : Contains(answer, c)}

\* C24: wrong_guesses is the number of guessed letters that do not occur in
\* answer, so the size of guessed_letters is wrong_guesses plus the number of
\* accepted correct guesses; a give_hint and a rejected make_guess change
\* neither guessed_letters nor wrong_guesses.
C24_MistakeCount ==
  /\ [](wrong_guesses = Cardinality(WrongLetters))
  /\ [](Cardinality(guessed_letters)
          = wrong_guesses + Cardinality(RightLetters))
  /\ [][ (HintStep \/ (lastOp' = "make_guess" /\ result' # "ok"))
         => UNCHANGED <<guessed_letters, wrong_guesses>> ]_vars

\* C24 witness: two wrong letters and one right letter are guessed, a hint
\* has revealed another letter, and an input has just been rejected.
C24_Witness ==
  /\ lastOp = "make_guess"
  /\ result = "NotALetter"
  /\ answer = <<"a", "b", "a">>
  /\ hint = <<"a", "b", "a">>
  /\ guessed_letters = {"a", "c", "d"}
  /\ wrong_guesses = 2

\* C25: in every step a revealed position of hint keeps its character,
\* guessed_letters loses no element and wrong_guesses does not decrease; so
\* the win test and the lose test, once true, stay true.
C25_Monotone ==
  [][ /\ \A i \in 1..Len(hint) : hint[i] # "_" => hint'[i] = hint[i]
      /\ Len(hint') = Len(hint)
      /\ guessed_letters \subseteq guessed_letters'
      /\ wrong_guesses' >= wrong_guesses
      /\ WinTest(hint) => WinTest(hint')
      /\ LoseTest(wrong_guesses) => LoseTest(wrong_guesses') ]_vars

\* C25 witness: a wrong guess was accepted after the round was won; the
\* win test still holds.
C25_Witness ==
  /\ lastOp = "make_guess"
  /\ result = "ok"
  /\ lastArg = <<"c">>
  /\ answer = <<"a", "b">>
  /\ WinTest(hint)
  /\ guessed_letters = {"a", "b", "c"}
  /\ wrong_guesses = 1

\* C26: in a round on the game screen, with 6 lives and a hint offered at
\* 3 wrong guesses in a row, the hint is offered at most once: each offer
\* comes with at least 3 wrong guesses more than the one before, and the
\* sixth wrong guess ends the round before any offer.
C26_OneOffer ==
  /\ [](hint_offers <= 1)
  /\ [](wrong_guesses >= HintThreshold * hint_offers)
  /\ [][ (pc' = "ask_box" /\ pc # "ask_box")
         => /\ hint_offers' = 1
            /\ wrong_guesses' < HangmanStages - 1 ]_vars

\* C26 witness: after the one offer a second streak of 3 wrong guesses has
\* ended the round as lost.
C26_Witness ==
  /\ hint_offers = 1
  /\ pc = "lose_box"
  /\ consecutive_errors = HintThreshold
  /\ wrong_guesses = HangmanStages - 1

\* the text of guessed_word_label shows the character ch at position i of
\* the word: the characters of the word are at the odd positions of the text
LabelShows(i, ch) ==
  /\ 2 * i - 1 <= Len(guessed_word_label)
  /\ guessed_word_label[2 * i - 1] = ch

\* C27 as stated: whenever the game screen is shown and no handler is
\* running, guessed_word_label shows hint position by position, so a
\* character of the secret that is not a letter is shown as itself, before the
\* first guess too.
C27_AsStated ==
  (screen = "game" /\ pc = "idle")
    => \A i \in 1..Len(hint) : LabelShows(i, hint[i])
====
